---- MODULE Spec2Model ----
(***************************************************************************)
(* A model of agcm's asynchronous engine:                                  *)
(*   - internal/export: Exporter.ExportCases, the bounded-concurrency bulk *)
(*     export (task goroutines, semaphore, progress channel, manifest);    *)
(*   - internal/tui: Model.Update, the Bubble Tea event loop with its      *)
(*     debounced detail fetch, detail cache and paginated case list.       *)
(* Each part has its own specification over the one set of variables.      *)
(***************************************************************************)
EXTENDS Integers, Sequences, FiniteSets, Bags, TLC

(***************************************************************************)
(* Bounds of the model.                                                    *)
(***************************************************************************)
\* the longest caseNumbers list handed to ExportCases
MaxTasks == 2
\* the largest Options.Concurrency a run is configured with
MaxConcurrency == 2
\* the capacity of the caller's progress channel (the callers make 10)
ProgressCap == 1
\* the most attachments a case has
MaxAttachments == 1

\* the cases the service holds
NServer == 2
\* the rows of one list page (casePageSize, 100 in the program)
PageSize == 1
\* CaseList.visibleRows(): the rows the list pane shows (its height - 4)
VisibleRows == 1
\* the most commands and messages in flight to the event loop at once
MaxInflight == 2

VARIABLES
    \* ---- tui.Model ----
    cases,           \* m.cases (and caseList.cases, the same slice)
    cursor,          \* caseList.cursor, zero-based
    offset,          \* caseList.offset, the first row shown
    totalCases,      \* m.totalCases
    loadingCases,    \* m.loadingCases
    loadingDetail,   \* m.loadingDetail
    highlightedCase, \* m.highlightedCase, NoCase for ""
    pendingFetch,    \* m.pendingFetch, NoCase for ""
    detailCache,     \* the keys of m.detailCache
    displayed,       \* the case caseDetail shows (caseDetail.GetCase()), or NoCase
    sortField,       \* m.sortField
    sortReverse,     \* m.sortReverse
    activeFilter,    \* m.activeFilter: "nil" or the name of a filter
    dialog,          \* the dialog that is visible and takes every message
    inflight,       \* bag of the commands running and the messages not yet delivered
    flagged,        \* the pieces the status bar warned of for the last detail result
    exporting,      \* m.exporting
    exportProgressCh, \* m.exportProgressCh: 0 for nil, or the number of the channel
    modalVisible,   \* m.modal.IsVisible(): the progress modal
    pendingExport,  \* m.pendingExport: "", "single" or "bulk"
    runsStarted,    \* how many progress channels startBulkExport has made
    timed,          \* whether the clock of the debounce timers is modelled
    sinceChange,    \* clock: ticks since the highlight last changed (saturating)
    burstFetches,   \* clock: the ids fetched since the burst of changes began        \* bag of commands running and messages not yet handled
    \* ---- Exporter.ExportCases ----
    caseNumbers,    \* the input list
    combined,       \* Options.Combined
    concurrency,    \* Options.Concurrency, as NewExporter left it
    mainPc,         \* where ExportCases itself stands
    taskPc,         \* where each task goroutine stands, by input index
    sem,            \* len(sem): slots taken of the semaphore channel
    errCh,          \* the buffered error channel: input indices of failed tasks
    exports,        \* the exports slice guarded by exportsMu: case numbers
    manifestCases,  \* manifest.Cases: case numbers of the entries
    addCaseLocal,   \* per task: the manifest.Cases value AddCase's append read
    files,          \* case numbers whose case.md has been written
    progressCh,     \* the progress channel's buffer: CompletedCases values
    progressNil,    \* progressCh == nil: the caller passed no channel
    consumer,       \* "reading" | "stopped": the caller's progress reader
    includeAttachments, \* Options.IncludeAttachments
    attLeft,        \* per task: attachments the download loop has still to do
    combinedDoc,    \* the sections of the combined document written, or <<>>
    manifestSaved,  \* how many times Manifest.Save wrote the manifest
    retErr,         \* "none" while running, then what ExportCases returned
    cancelled,      \* the run's ctx has been cancelled
    cancelAt,       \* taskPc as it was when ctx was cancelled
    lastProgress,   \* CompletedCases of the last Progress sent, -1 before any
    closes,         \* how many times the caller has closed the progress channel
    attFailed,      \* per task: a downloadAttachment of it has failed
    \* ---- Exporter.ExportWithFilter ----
    listPc,         \* "listing", then "collected", then "called" (ExportCases),
                    \* "empty" or "failed"; "called" when ExportCases is called directly
    startIndex,     \* filter.StartIndex
    allCases,       \* allCases: the case numbers collected
    requests,       \* the offsets ListCases has been asked for, in order
    matching        \* how many cases the service holds that match the filter

exportVars == <<caseNumbers, combined, concurrency, mainPc, taskPc, sem, errCh,
                exports, manifestCases, addCaseLocal, files, progressCh,
                progressNil, consumer, includeAttachments, attLeft,
                combinedDoc, manifestSaved, retErr, cancelled, cancelAt,
                lastProgress, closes, attFailed, listPc, startIndex, allCases,
                requests, matching>>

listVars == <<listPc, startIndex, allCases, requests, matching>>

cancelVars == <<cancelled, cancelAt>>

tuiVars == <<cases, cursor, offset, totalCases, loadingCases, loadingDetail,
             highlightedCase, pendingFetch, detailCache, displayed, sortField,
             sortReverse, activeFilter, dialog, inflight>>

clockVars == <<timed, sinceChange, burstFetches>>

noticeVars == <<flagged>>

tuiExportVars == <<exporting, exportProgressCh, modalVisible, pendingExport,
                   runsStarted>>

uiVars == <<tuiVars, clockVars, noticeVars, tuiExportVars>>

vars == <<uiVars, exportVars>>

(***************************************************************************)
(* internal/export                                                         *)
(***************************************************************************)

\* The input list of a run over n cases: n distinct case numbers, not in
\* ascending order (for 2: <<2, 1>>).
InputList(n) == [i \in 1..n |-> IF i = n THEN 1 ELSE i + 1]

N == Len(caseNumbers)
Tasks == 1..N

\* NewExporter taking Options.Concurrency as it is given.
NewExporterAsGiven(c) == c

\* NewExporter: "Ensure concurrency is at least 1 to prevent deadlock".
NewExporter(c) == IF c < 1 THEN 1 ELSE c

\* The task states of the design: a task holds a semaphore slot from its
\* acquire to its return.
Terminal == {"done", "failed"}
Holding(i) == taskPc[i] \notin ({"pending"} \cup Terminal)

\* ExportCases called by itself, with no listing before it.
InitCalled ==
    /\ listPc = "called"
    /\ startIndex = 0
    /\ allCases = <<>>
    /\ requests = <<>>
    /\ matching = 0

InitExport ==
    /\ caseNumbers \in {InputList(n) : n \in 0..MaxTasks}
    /\ combined \in BOOLEAN
    /\ concurrency \in {NewExporter(c) : c \in 0..MaxConcurrency}
    /\ mainPc = "mkdirOut"
    /\ taskPc = [i \in 1..Len(caseNumbers) |-> "pending"]
    /\ sem = 0
    /\ errCh = <<>>
    /\ exports = <<>>
    /\ manifestCases = <<>>
    /\ addCaseLocal = [i \in 1..Len(caseNumbers) |-> <<>>]
    /\ files = {}
    /\ progressCh = <<>>
    /\ progressNil \in BOOLEAN
    /\ consumer = "reading"
    /\ includeAttachments \in BOOLEAN
    /\ attLeft = [i \in 1..Len(caseNumbers) |-> 0]
    /\ combinedDoc = <<>>
    /\ manifestSaved = 0
    /\ retErr = "none"
    /\ cancelled = FALSE
    /\ cancelAt = [i \in 1..Len(caseNumbers) |-> "pending"]
    /\ lastProgress = 0 - 1
    /\ closes = 0
    /\ attFailed = [i \in 1..Len(caseNumbers) |-> FALSE]
    /\ InitCalled

\* len(export.Attachments) of a case: what the service lists for it.
NumAttachments(cn) == cn % (MaxAttachments + 1)

\* `progressCh <- Progress{...}` is a plain channel send: it blocks while the
\* buffer is full.  With a nil channel the send is skipped.
CanSend == progressNil \/ Len(progressCh) < ProgressCap
Send(completed) ==
    /\ progressCh' = IF progressNil THEN progressCh ELSE Append(progressCh, completed)
    /\ lastProgress' = IF progressNil THEN lastProgress ELSE completed

\* `errCh <- err; return` with no deferred `<-sem`: the slot stays taken.
FailHolding(i) ==
    /\ errCh' = Append(errCh, i)
    /\ taskPc' = [taskPc EXCEPT ![i] = "failed"]
    /\ sem' = sem

\* `errCh <- err; return`: the deferred `<-sem` and wg.Done() run.  errCh has
\* room for one error per task, so the send never blocks.
Fail(i) ==
    /\ errCh' = Append(errCh, i)
    /\ taskPc' = [taskPc EXCEPT ![i] = "failed"]
    /\ sem' = sem - 1

\* A semaphore send that never blocks.
CanAcquireUnbounded == TRUE

\* `sem <- struct{}{}`: blocks while all Concurrency slots are taken.
CanAcquire == sem < concurrency

Acquire(i) ==
    /\ mainPc = "wait"
    /\ taskPc[i] = "pending"
    /\ CanAcquire
    /\ sem' = sem + 1
    /\ taskPc' = [taskPc EXCEPT ![i] = "progressFetch"]
    /\ UNCHANGED <<uiVars, listVars, cancelVars, closes, attFailed, lastProgress, caseNumbers, combined, concurrency, mainPc, errCh, exports,
                   manifestCases, addCaseLocal, files, progressCh, progressNil,
                   consumer, includeAttachments, attLeft, combinedDoc,
                   manifestSaved, retErr>>

\* Progress{CompletedCases: idx, CurrentStep: "Fetching case data"}; idx is
\* the zero-based input index.
ProgressFetch(i) ==
    /\ taskPc[i] = "progressFetch"
    /\ CanSend
    /\ Send(i - 1)
    /\ taskPc' = [taskPc EXCEPT ![i] = "getCase"]
    /\ UNCHANGED <<uiVars, listVars, cancelVars, closes, attFailed, caseNumbers, combined, concurrency, mainPc, sem, errCh,
                   exports, manifestCases, addCaseLocal, files, progressNil,
                   consumer, includeAttachments, attLeft, combinedDoc,
                   manifestSaved, retErr>>

\* ExportCase starting over from GetCase after GetCaseAttachments.
RemoteNextRetrying(pc) ==
    CASE pc = "getCase" -> "getComments"
      [] pc = "getComments" -> "getAttachments"
      [] pc = "getAttachments" -> "getCase"

\* ExportCase: the three remote calls GetCase, GetCaseComments and
\* GetCaseAttachments, each of which returns or fails.
RemoteNext(pc) ==
    CASE pc = "getCase" -> "getComments"
      [] pc = "getComments" -> "getAttachments"
      [] pc = "getAttachments" -> "appendExport"

\* The calls carry ctx (http.NewRequestWithContext): once ctx is cancelled
\* a call fails, unless it was under way at the cancellation and its
\* response is already there.
CallCanSucceed(i) == ~cancelled \/ cancelAt[i] = taskPc[i]

RemoteCall(i) ==
    /\ taskPc[i] \in {"getCase", "getComments", "getAttachments"}
    /\ \/ /\ CallCanSucceed(i)
          /\ taskPc' = [taskPc EXCEPT ![i] = RemoteNext(taskPc[i])]
          /\ UNCHANGED <<errCh, sem>>
       \/ Fail(i)
    /\ UNCHANGED <<uiVars, listVars, cancelVars, closes, attFailed, lastProgress, caseNumbers, combined, concurrency, mainPc, exports,
                   manifestCases, addCaseLocal, files, progressCh, progressNil,
                   consumer, includeAttachments, attLeft, combinedDoc,
                   manifestSaved, retErr>>

\* exportsMu.Lock(); exports = append(exports, export); exportsMu.Unlock()
AppendExport(i) ==
    /\ taskPc[i] = "appendExport"
    /\ exports' = Append(exports, caseNumbers[i])
    /\ taskPc' = [taskPc EXCEPT ![i] =
                    IF combined THEN "progressDone" ELSE "mkdirCase"]
    /\ UNCHANGED <<uiVars, listVars, cancelVars, closes, attFailed, lastProgress, caseNumbers, combined, concurrency, mainPc, sem, errCh,
                   manifestCases, addCaseLocal, files, progressCh, progressNil,
                   consumer, includeAttachments, attLeft, combinedDoc,
                   manifestSaved, retErr>>

\* Per-case-file mode: os.MkdirAll(caseDir), formatter.FormatCase, then
\* os.WriteFile(outputPath); each may fail.
MkdirCase(i) ==
    /\ taskPc[i] = "mkdirCase"
    /\ \/ /\ taskPc' = [taskPc EXCEPT ![i] = "formatCase"]
          /\ UNCHANGED <<errCh, sem>>
       \/ Fail(i)
    /\ UNCHANGED <<uiVars, listVars, cancelVars, closes, attFailed, lastProgress, caseNumbers, combined, concurrency, mainPc, exports,
                   manifestCases, addCaseLocal, files, progressCh, progressNil,
                   consumer, includeAttachments, attLeft, combinedDoc,
                   manifestSaved, retErr>>

FormatCase(i) ==
    /\ taskPc[i] = "formatCase"
    /\ \/ /\ taskPc' = [taskPc EXCEPT ![i] = "writeFile"]
          /\ UNCHANGED <<errCh, sem>>
       \/ Fail(i)
    /\ UNCHANGED <<uiVars, listVars, cancelVars, closes, attFailed, lastProgress, caseNumbers, combined, concurrency, mainPc, exports,
                   manifestCases, addCaseLocal, files, progressCh, progressNil,
                   consumer, includeAttachments, attLeft, combinedDoc,
                   manifestSaved, retErr>>

AfterWrite(i) ==
    IF includeAttachments /\ NumAttachments(caseNumbers[i]) > 0
    THEN "mkdirAtt" ELSE "addCaseRead"

WriteFile(i) ==
    /\ taskPc[i] = "writeFile"
    /\ \/ /\ taskPc' = [taskPc EXCEPT ![i] = AfterWrite(i)]
          /\ files' = files \cup {caseNumbers[i]}
          /\ UNCHANGED <<errCh, sem>>
       \/ Fail(i) /\ UNCHANGED files
    /\ UNCHANGED <<uiVars, listVars, cancelVars, closes, attFailed, lastProgress, caseNumbers, combined, concurrency, mainPc, exports,
                   manifestCases, addCaseLocal, progressCh, progressNil,
                   consumer, includeAttachments, attLeft, combinedDoc,
                   manifestSaved, retErr>>

\* os.MkdirAll(attDir), then for each attachment a progress event and
\* downloadAttachment, whose failure is only warned about.
MkdirAtt(i) ==
    /\ taskPc[i] = "mkdirAtt"
    /\ \/ /\ taskPc' = [taskPc EXCEPT ![i] = "progressAtt"]
          /\ attLeft' = [attLeft EXCEPT ![i] = NumAttachments(caseNumbers[i])]
          /\ UNCHANGED <<errCh, sem>>
       \/ Fail(i) /\ UNCHANGED attLeft
    /\ UNCHANGED <<uiVars, listVars, cancelVars, closes, attFailed, lastProgress, caseNumbers, combined, concurrency, mainPc, exports,
                   manifestCases, addCaseLocal, files, progressCh, progressNil,
                   consumer, includeAttachments, combinedDoc, manifestSaved,
                   retErr>>

ProgressAtt(i) ==
    /\ taskPc[i] = "progressAtt"
    /\ CanSend
    /\ Send(i - 1)
    /\ taskPc' = [taskPc EXCEPT ![i] = "download"]
    /\ UNCHANGED <<uiVars, listVars, cancelVars, closes, attFailed, caseNumbers, combined, concurrency, mainPc, sem, errCh,
                   exports, manifestCases, addCaseLocal, files, progressNil,
                   consumer, includeAttachments, attLeft, combinedDoc,
                   manifestSaved, retErr>>

Download(i) ==
    /\ taskPc[i] = "download"
    /\ attLeft' = [attLeft EXCEPT ![i] = @ - 1]
    /\ \E err \in BOOLEAN : attFailed' = [attFailed EXCEPT ![i] = @ \/ err]
    /\ taskPc' = [taskPc EXCEPT ![i] =
                    IF attLeft[i] > 1 THEN "progressAtt" ELSE "addCaseRead"]
    /\ UNCHANGED <<uiVars, listVars, cancelVars, closes, lastProgress, caseNumbers, combined, concurrency, mainPc, sem, errCh,
                   exports, manifestCases, addCaseLocal, files, progressCh,
                   progressNil, consumer, includeAttachments, combinedDoc,
                   manifestSaved, retErr>>

\* manifest.AddCase: m.Cases = append(m.Cases, ManifestCase{...}), called with
\* no lock held: a read of m.Cases, then a write of the appended slice.
AddCaseRead(i) ==
    /\ taskPc[i] = "addCaseRead"
    /\ addCaseLocal' = [addCaseLocal EXCEPT ![i] = manifestCases]
    /\ taskPc' = [taskPc EXCEPT ![i] = "addCaseWrite"]
    /\ UNCHANGED <<uiVars, listVars, cancelVars, closes, attFailed, lastProgress, caseNumbers, combined, concurrency, mainPc, sem, errCh,
                   exports, manifestCases, files, progressCh, progressNil,
                   consumer, includeAttachments, attLeft, combinedDoc,
                   manifestSaved, retErr>>

AddCaseWrite(i) ==
    /\ taskPc[i] = "addCaseWrite"
    /\ manifestCases' = Append(addCaseLocal[i], caseNumbers[i])
    /\ addCaseLocal' = [addCaseLocal EXCEPT ![i] = <<>>]
    /\ taskPc' = [taskPc EXCEPT ![i] = "progressDone"]
    /\ UNCHANGED <<uiVars, listVars, cancelVars, closes, attFailed, lastProgress, caseNumbers, combined, concurrency, mainPc, sem, errCh,
                   exports, files, progressCh, progressNil, consumer,
                   includeAttachments, attLeft, combinedDoc, manifestSaved,
                   retErr>>

\* Progress{CompletedCases: idx + 1, CurrentStep: "Complete"}, then the
\* goroutine returns: `<-sem` and wg.Done().
ProgressDone(i) ==
    /\ taskPc[i] = "progressDone"
    /\ CanSend
    /\ Send(i)
    /\ taskPc' = [taskPc EXCEPT ![i] = "done"]
    /\ sem' = sem - 1
    /\ UNCHANGED <<uiVars, listVars, cancelVars, closes, attFailed, caseNumbers, combined, concurrency, mainPc, errCh, exports,
                   manifestCases, addCaseLocal, files, progressNil, consumer,
                   includeAttachments, attLeft, combinedDoc, manifestSaved,
                   retErr>>

TaskStep(i) ==
    \/ Acquire(i)
    \/ ProgressFetch(i)
    \/ RemoteCall(i)
    \/ AppendExport(i)
    \/ MkdirCase(i)
    \/ FormatCase(i)
    \/ WriteFile(i)
    \/ MkdirAtt(i)
    \/ ProgressAtt(i)
    \/ Download(i)
    \/ AddCaseRead(i)
    \/ AddCaseWrite(i)
    \/ ProgressDone(i)

\* ExportCases itself.  os.MkdirAll(OutputDir) fails and the run returns
\* (nil, err), or the loop starts one goroutine per case number (wg.Add(1);
\* go func): every task is "pending" at its `sem <- struct{}{}`.
MkdirOut ==
    /\ listPc = "called"
    /\ mainPc = "mkdirOut"
    /\ \/ /\ mainPc' = "wait"
          /\ UNCHANGED retErr
       \/ /\ mainPc' = "returned"
          /\ retErr' = "mkdirOut"
    /\ UNCHANGED <<uiVars, listVars, cancelVars, closes, attFailed, lastProgress, caseNumbers, combined, concurrency, taskPc, sem, errCh,
                   exports, manifestCases, addCaseLocal, files, progressCh,
                   progressNil, consumer, includeAttachments, attLeft,
                   combinedDoc, manifestSaved>>

\* wg.Wait() returns once every goroutine has run wg.Done(); close(errCh); the
\* errors are collected; with any error the run returns (manifest, error).
AfterCollect ==
    IF Len(errCh) > 0 THEN "returned"
    ELSE IF combined /\ Len(exports) > 0 THEN "formatCases"
    ELSE "saveManifest"

WaitCollect ==
    /\ mainPc = "wait"
    /\ \A i \in Tasks : taskPc[i] \in Terminal
    /\ mainPc' = AfterCollect
    /\ retErr' = IF Len(errCh) > 0 THEN "taskErrors" ELSE retErr
    /\ UNCHANGED <<uiVars, listVars, cancelVars, closes, attFailed, lastProgress, caseNumbers, combined, concurrency, taskPc, sem, errCh,
                   exports, manifestCases, addCaseLocal, files, progressCh,
                   progressNil, consumer, includeAttachments, attLeft,
                   combinedDoc, manifestSaved>>

\* Formatter.FormatCases: the documents of `exports`, in slice order, joined.
FormatCases(exps) == exps

\* Combined mode: e.formatter.FormatCases(exports), then os.WriteFile of the
\* combined document; each may fail and return (manifest, err).
FormatCombined ==
    /\ mainPc = "formatCases"
    /\ \/ /\ mainPc' = "writeCombined"
          /\ UNCHANGED retErr
       \/ /\ mainPc' = "returned"
          /\ retErr' = "formatCombined"
    /\ UNCHANGED <<uiVars, listVars, cancelVars, closes, attFailed, lastProgress, caseNumbers, combined, concurrency, taskPc, sem, errCh,
                   exports, manifestCases, addCaseLocal, files, progressCh,
                   progressNil, consumer, includeAttachments, attLeft,
                   combinedDoc, manifestSaved>>

WriteCombined ==
    /\ mainPc = "writeCombined"
    /\ \/ /\ mainPc' = "saveManifest"
          /\ combinedDoc' = FormatCases(exports)
          /\ UNCHANGED retErr
       \/ /\ mainPc' = "returned"
          /\ retErr' = "writeCombined"
          /\ UNCHANGED combinedDoc
    /\ UNCHANGED <<uiVars, listVars, cancelVars, closes, attFailed, lastProgress, caseNumbers, combined, concurrency, taskPc, sem, errCh,
                   exports, manifestCases, addCaseLocal, files, progressCh,
                   progressNil, consumer, includeAttachments, attLeft,
                   manifestSaved>>

\* manifest.Save(manifestPath), then return (manifest, nil) or the save error.
SaveManifest ==
    /\ mainPc = "saveManifest"
    /\ mainPc' = "returned"
    /\ \/ /\ manifestSaved' = manifestSaved + 1
          /\ retErr' = "nil"
       \/ /\ retErr' = "saveManifest"
          /\ UNCHANGED manifestSaved
    /\ UNCHANGED <<uiVars, listVars, cancelVars, closes, attFailed, lastProgress, caseNumbers, combined, concurrency, taskPc, sem, errCh,
                   exports, manifestCases, addCaseLocal, files, progressCh,
                   progressNil, consumer, includeAttachments, attLeft,
                   combinedDoc>>

MainStep ==
    \/ MkdirOut
    \/ WaitCollect
    \/ FormatCombined
    \/ WriteCombined
    \/ SaveManifest

\* The caller's reader of the progress channel (`for p := range progressCh`,
\* or the TUI's waitExportProgress): it takes the oldest event, and it may
\* stop reading for good.
Consume ==
    /\ consumer = "reading"
    /\ Len(progressCh) > 0
    /\ progressCh' = Tail(progressCh)
    /\ UNCHANGED <<uiVars, listVars, cancelVars, closes, attFailed, lastProgress, caseNumbers, combined, concurrency, mainPc, taskPc, sem,
                   errCh, exports, manifestCases, addCaseLocal, files,
                   progressNil, consumer, includeAttachments, attLeft,
                   combinedDoc, manifestSaved, retErr>>

StopReading ==
    /\ consumer = "reading"
    /\ ~progressNil
    /\ mainPc # "returned"
    /\ consumer' = "stopped"
    /\ UNCHANGED <<uiVars, listVars, cancelVars, closes, attFailed, lastProgress, caseNumbers, combined, concurrency, mainPc, taskPc, sem,
                   errCh, exports, manifestCases, addCaseLocal, files,
                   progressCh, progressNil, includeAttachments, attLeft,
                   combinedDoc, manifestSaved, retErr>>

\* The caller closes the channel at once, while the goroutines may run.
CanCloseEarly == mainPc \in {"wait", "returned"}

\* The caller's `close(progressCh)` is the statement after its call of
\* ExportCases: it runs once the call has returned.
CanClose == mainPc = "returned"

CloseProgress ==
    /\ CanClose
    /\ ~progressNil
    /\ closes = 0
    /\ closes' = closes + 1
    /\ UNCHANGED <<uiVars, listVars, cancelVars, attFailed, lastProgress, caseNumbers,
                   combined, concurrency, mainPc, taskPc, sem, errCh, exports,
                   manifestCases, addCaseLocal, files, progressCh, progressNil,
                   consumer, includeAttachments, attLeft, combinedDoc,
                   manifestSaved, retErr>>

\* What the engine itself can do: a step of ExportCases or of a task.
EngineStep == MainStep \/ \E i \in Tasks : TaskStep(i)

NextExport == EngineStep \/ Consume \/ StopReading \/ CloseProgress

\* The caller cancels ctx (the interface's m.exportCancel) while the
\* goroutines run.
Cancel ==
    /\ mainPc = "wait"
    /\ ~cancelled
    /\ cancelled' = TRUE
    /\ cancelAt' = taskPc
    /\ UNCHANGED <<uiVars, listVars, closes, attFailed, caseNumbers, combined, concurrency, mainPc, taskPc,
                   sem, errCh, exports, manifestCases, addCaseLocal, files,
                   progressCh, progressNil, consumer, includeAttachments,
                   attLeft, combinedDoc, manifestSaved, retErr, lastProgress>>

NextCancel == EngineStep \/ Consume \/ Cancel

\* ExportCases with a caller that reads progress to the end.
NextReading == EngineStep \/ Consume

(***************************************************************************)
(* The remote case service                                                 *)
(***************************************************************************)
\* "" as a case number: no case.
NoCase == 0

Min(a, b) == IF a < b THEN a ELSE b
Max(a, b) == IF a > b THEN a ELSE b

\* The fields the list sorts by.  Case c is the c-th most recently modified
\* case of the service; severities repeat.
LastModified(c) == 0 - c
CreatedDate(c) == (c * 2) % (NServer + 1)
Severity(c) == c % 2
CaseNumberOf(c) == c

\* The service's answer to a filter: Hydra lists with
\* sort=case_lastModifiedDate desc; the filter "sev" keeps one severity.
AllRows == [i \in 1..NServer |-> i]
MatchesSev(c) == Severity(c) = 1
ServerRows(f) == IF f = "nil" THEN AllRows ELSE SelectSeq(AllRows, MatchesSev)

\* Client.ListCases: `rows` rows from `start` on, and numFound.
ListCases(f, start, rows) ==
    [items |-> SubSeq(ServerRows(f), start + 1,
                      Min(start + rows, Len(ServerRows(f)))),
     totalCount |-> Len(ServerRows(f))]

(***************************************************************************)
(* Exporter.ExportWithFilter                                               *)
(***************************************************************************)
\* filter.Count: the batch size of the listing (100 in the program)
BatchSize == 2
\* the most cases the service holds that match the filter
MaxMatching == 5

\* The result set of the filter, in the order the service lists it (last
\* modified first): it does not change during the listing.
MatchingRows(t) == [k \in 1..t |-> t + 1 - k]

\* Client.ListCases on that result set: filter.Count rows from
\* filter.StartIndex on, and numFound.
ListMatching(start, rows) ==
    [items |-> SubSeq(MatchingRows(matching), start + 1,
                      Min(start + rows, matching)),
     totalCount |-> matching]

\* The next offset, one row short of the batch.
NextStartIndexOverlap(si) == si + BatchSize - 1

\* filter.StartIndex += filter.Count
NextStartIndex(si) == si + BatchSize

\* One round of the loop: ListCases fails and ExportWithFilter returns
\* (nil, err), or the batch is appended and the loop breaks or goes on.
ListBatch ==
    /\ listPc = "listing"
    /\ requests' = Append(requests, startIndex)
    /\ \/ /\ listPc' = "failed"
          /\ UNCHANGED <<allCases, startIndex>>
       \/ LET result == ListMatching(startIndex, BatchSize)
              collected == allCases \o result.items
          IN  /\ allCases' = collected
              /\ IF Len(result.items) < BatchSize \/ Len(collected) >= result.totalCount
                 THEN /\ listPc' = "collected"
                      /\ UNCHANGED startIndex
                 ELSE /\ startIndex' = NextStartIndex(startIndex)
                      /\ UNCHANGED listPc
    /\ UNCHANGED <<uiVars, cancelVars, closes, attFailed, lastProgress,
                   matching, caseNumbers, combined, concurrency, mainPc,
                   taskPc, sem, errCh, exports, manifestCases, addCaseLocal,
                   files, progressCh, progressNil, consumer,
                   includeAttachments, attLeft, combinedDoc, manifestSaved,
                   retErr>>

\* After the loop: with no case ExportWithFilter returns (NewManifest(), nil);
\* otherwise it calls ExportCases with the case numbers collected.
AfterListing ==
    /\ listPc = "collected"
    /\ IF Len(allCases) = 0
       THEN /\ listPc' = "empty"
            /\ UNCHANGED <<caseNumbers, taskPc, addCaseLocal, attLeft, cancelAt,
                           attFailed>>
       ELSE /\ listPc' = "called"
            /\ caseNumbers' = allCases
            /\ taskPc' = [i \in 1..Len(allCases) |-> "pending"]
            /\ addCaseLocal' = [i \in 1..Len(allCases) |-> <<>>]
            /\ attLeft' = [i \in 1..Len(allCases) |-> 0]
            /\ cancelAt' = [i \in 1..Len(allCases) |-> "pending"]
            /\ attFailed' = [i \in 1..Len(allCases) |-> FALSE]
    /\ UNCHANGED <<uiVars, cancelled, closes, lastProgress, startIndex,
                   allCases, requests, matching, combined, concurrency,
                   mainPc, sem, errCh, exports, manifestCases, files,
                   progressCh, progressNil, consumer, includeAttachments,
                   combinedDoc, manifestSaved, retErr>>

\* ExportWithFilter up to the start of the tasks of its ExportCases.
NextFilter ==
    \/ ListBatch
    \/ AfterListing
    \/ MkdirOut
    \/ \E i \in Tasks : Acquire(i)

(***************************************************************************)
(* components.CaseList                                                     *)
(***************************************************************************)
\* CaseList.SelectedCase
SelectedCase(cs, cur) ==
    IF cur >= 0 /\ cur < Len(cs) THEN cs[cur + 1] ELSE NoCase

\* CaseList.ensureVisible: the offset that keeps the cursor in view.
EnsureVisible(cur, off) ==
    IF cur < off THEN cur
    ELSE IF cur >= off + VisibleRows THEN cur - VisibleRows + 1
    ELSE off

\* CaseList.Update on a key: the cursor and offset it leaves.
ListKeys == {"up", "down", "top", "bottom", "pgup", "pgdown"}
ListKey(k, cs, cur, off) ==
    CASE k = "up" ->
            IF cur > 0
            THEN [cursor |-> cur - 1, offset |-> EnsureVisible(cur - 1, off)]
            ELSE [cursor |-> cur, offset |-> off]
      [] k = "down" ->
            IF cur < Len(cs) - 1
            THEN [cursor |-> cur + 1, offset |-> EnsureVisible(cur + 1, off)]
            ELSE [cursor |-> cur, offset |-> off]
      [] k = "top" -> [cursor |-> 0, offset |-> 0]
      [] k = "bottom" ->
            [cursor |-> Len(cs) - 1, offset |-> EnsureVisible(Len(cs) - 1, off)]
      [] k = "pgup" ->
            LET c == Max(cur - VisibleRows, 0)
            IN [cursor |-> c, offset |-> EnsureVisible(c, off)]
      [] k = "pgdown" ->
            LET c == IF cur + VisibleRows >= Len(cs)
                     THEN Len(cs) - 1 ELSE cur + VisibleRows
            IN [cursor |-> c, offset |-> EnsureVisible(c, off)]

\* CaseList.ScrollUp(n) and ScrollDown(n), the mouse wheel's moves.
ScrollUp(n, cur, off) ==
    LET c == Max(cur - n, 0)
    IN [cursor |-> c, offset |-> EnsureVisible(c, off)]
ScrollDown(n, cs, cur, off) ==
    LET c1 == IF cur + n >= Len(cs) THEN Len(cs) - 1 ELSE cur + n
        c == Max(c1, 0)
    IN [cursor |-> c, offset |-> EnsureVisible(c, off)]

\* CaseList.SetOffset: clamped to the rows there are.
SetOffset(o, cs) == Max(0, Min(o, Max(Len(cs) - VisibleRows, 0)))

\* CaseList.SetCursor: only to a row of the list.
SetCursor(idx, cs, cur, off) ==
    IF idx >= 0 /\ idx < Len(cs)
    THEN [cursor |-> idx, offset |-> EnsureVisible(idx, off)]
    ELSE [cursor |-> cur, offset |-> off]

(***************************************************************************)
(* tui.Model                                                               *)
(***************************************************************************)
SortByLastModified == 0
SortByCreated == 1
SortBySeverity == 2
SortByCaseNumber == 3

SortKey(c, field) ==
    CASE field = SortByCreated -> CreatedDate(c)
      [] field = SortBySeverity -> Severity(c)
      [] field = SortByCaseNumber -> CaseNumberOf(c)
      [] OTHER -> LastModified(c)

\* Model.sortCases: sort.Slice by the sort field, `!less` when reversed.  The
\* sort is not stable: any arrangement in order is an outcome.
InSortOrder(q, field, rev) ==
    \A i, j \in 1..Len(q) :
        i < j => IF rev THEN SortKey(q[i], field) >= SortKey(q[j], field)
                 ELSE SortKey(q[i], field) <= SortKey(q[j], field)
Arrangements(cs) ==
    {[i \in 1..Len(cs) |-> cs[p[i]]] : p \in Permutations(1..Len(cs))}
SortCases(cs, field, rev) ==
    {q \in Arrangements(cs) : InSortOrder(q, field, rev)}

\* Index of the first row holding case c, zero-based, or -1.
IndexOf(c, cs) ==
    IF \E i \in 1..Len(cs) : cs[i] = c
    THEN (CHOOSE i \in 1..Len(cs) :
            cs[i] = c /\ \A j \in 1..(i - 1) : cs[j] # c) - 1
    ELSE 0 - 1

One(m) == SetToBag({m})

\* The commands a handler returns, as records of `inflight`.
\* `age` is history, not in the program: "fresh" for a list fetch issued
\* since the last refresh or filter change, "old" for one issued before it,
\* "late" for an old one once the fresh first page has been applied.
PageCmd(start, app) ==
    [type |-> "loadCasesPage", start |-> start, append |-> app, age |-> "fresh"]
\* the ticks of debounceDelay a new timer has to run
DebounceTicks == 2
DebounceCmd(c) ==
    [type |-> "debounceTimeout", caseNumber |-> c, rem |-> DebounceTicks]
CasesLoadedMsg(items, total, app, err) ==
    [type |-> "casesLoaded", cases |-> items, totalCount |-> total,
     append |-> app, err |-> err, age |-> "fresh"]
\* caseDetailLoadedMsg: err is GetCase's error; `missing` holds "comments"
\* for a commentsErr and "attachments" for an attachErr.
Pieces == {"comments", "attachments"}
DetailLoadedMsg(c, err) ==
    [type |-> "caseDetailLoaded", caseNumber |-> c, err |-> err, age |-> "fresh",
     missing |-> {}]
PartialDetailMsg(c, missing) == [DetailLoadedMsg(c, FALSE) EXCEPT !.missing = missing]
\* What loadCaseDetail can return for case c: GetCase fails, or it succeeds
\* and each of GetCaseComments and GetCaseAttachments succeeds or fails.
WholeResults(c) == {DetailLoadedMsg(c, err) : err \in BOOLEAN}
PartialResults(c) == {PartialDetailMsg(c, ms) : ms \in (SUBSET Pieces) \ {{}}}

\* The copies b holds of the messages of S, all told.
RECURSIVE Copies(_, _)
Copies(S, b) ==
    IF S = {} THEN 0
    ELSE LET m == CHOOSE x \in S : TRUE IN b[m] + Copies(S \ {m}, b)
\* The messages of b, the list fetches of age `from` now of age `to`.
Aged(b, from, to) ==
    LET Grow(m) == IF m.type \in {"loadCasesPage", "casesLoaded"} /\ m.age = from
                   THEN [m EXCEPT !.age = to] ELSE m
    IN  [d \in {Grow(m) : m \in DOMAIN b} |->
            Copies({m \in DOMAIN b : Grow(m) = d}, b)]
\* The messages of b, the detail fetches now "old": issued before the detail
\* cache was cleared.
DetailAged(b) ==
    LET Grow(m) == IF m.type = "caseDetailLoaded"
                   THEN [m EXCEPT !.age = "old"] ELSE m
    IN  [d \in {Grow(m) : m \in DOMAIN b} |->
            Copies({m \in DOMAIN b : Grow(m) = d}, b)]
\* A refresh or a filter change: the fetches in flight were issued before it.
Superseded(b) == DetailAged(Aged(b, "fresh", "old"))
\* The fresh first page is applied: the old fetches still in flight are late.
Overtaken(b) == Aged(b, "old", "late")

\* Model.checkHighlightChange, given the list as the event left it: the
\* highlight, the pending fetch, the displayed case and the command.
CheckHighlightChange(cs, cur) ==
    LET newCase == SelectedCase(cs, cur)
    IN  IF newCase = NoCase \/ newCase = highlightedCase
        THEN [highlightedCase |-> highlightedCase, pendingFetch |-> pendingFetch,
              displayed |-> displayed, cmds |-> EmptyBag]
        ELSE IF newCase \in detailCache
        THEN [highlightedCase |-> newCase, pendingFetch |-> pendingFetch,
              displayed |-> newCase, cmds |-> EmptyBag]
        ELSE [highlightedCase |-> newCase, pendingFetch |-> newCase,
              displayed |-> displayed, cmds |-> One(DebounceCmd(newCase))]

NextPageStartOverlap(cs) == Len(cs) - 1

\* The offset maybeLoadMoreCases asks the next page at.
NextPageStart(cs) == Len(cs)

\* maybeLoadMoreCases without its test of the total count.
ShouldLoadMoreEager(cs, off) ==
    /\ ~loadingCases
    /\ off + VisibleRows >= Len(cs) - 1

\* Model.maybeLoadMoreCases, given the list as the event left it.
ShouldLoadMore(cs, off) ==
    /\ ~loadingCases
    /\ ~(totalCases = 0 \/ Len(cs) >= totalCases)
    /\ off + VisibleRows >= Len(cs) - 1
MaybeLoadMoreCases(cs, off) ==
    IF ShouldLoadMore(cs, off)
    THEN [loadingCases |-> TRUE, cmds |-> One(PageCmd(NextPageStart(cs), TRUE))]
    ELSE [loadingCases |-> loadingCases, cmds |-> EmptyBag]

InitTui ==
    /\ cases = <<>>
    /\ cursor = 0
    /\ offset = 0
    /\ totalCases = 0
    /\ loadingCases = TRUE
    /\ loadingDetail = FALSE
    /\ highlightedCase = NoCase
    /\ pendingFetch = NoCase
    /\ detailCache = {}
    /\ displayed = NoCase
    /\ sortField = SortByLastModified
    /\ sortReverse = TRUE
    /\ activeFilter = "nil"
    /\ dialog = "none"
    /\ inflight = One(PageCmd(0, FALSE))
    /\ flagged = {}
    /\ exporting = FALSE
    /\ exportProgressCh = 0
    /\ modalVisible = FALSE
    /\ pendingExport = ""
    /\ runsStarted = 0

InitClock(t) ==
    /\ timed = t
    /\ sinceChange = DebounceTicks
    /\ burstFetches = <<>>

\* What the clock records of a step of the event loop: whether the highlight
\* changed and whether a detail fetch was issued.
HighlightChanged == highlightedCase' # highlightedCase
IssuedFetches ==
    {m \in BagToSet(inflight') :
        /\ m.type = "caseDetailLoaded"
        /\ CopiesIn(m, inflight') > CopiesIn(m, inflight)}
Observe ==
    IF ~timed THEN UNCHANGED clockVars
    ELSE /\ timed' = timed
         /\ sinceChange' = IF HighlightChanged THEN 0 ELSE sinceChange
         /\ burstFetches' =
                IF HighlightChanged /\ sinceChange >= DebounceTicks THEN <<>>
                ELSE IF IssuedFetches # {} /\ Len(burstFetches) < 2
                THEN Append(burstFetches, (CHOOSE m \in IssuedFetches : TRUE).caseNumber)
                ELSE burstFetches

\* The messages, as against the commands still running.
IsMessage(m) == m.type \notin {"loadCasesPage", "exportRun"}
\* Against the clock, a timer's message arrives when the timer has run out,
\* and the event loop takes it before any other message or event.
TimerDue ==
    \E m \in BagToSet(inflight) : m.type = "debounceTimeout" /\ m.rem = 0
Ready == timed => ~TimerDue
Due(m) == IF m.type = "debounceTimeout" THEN timed => m.rem = 0 ELSE Ready

NoHighlightChange ==
    [highlightedCase |-> highlightedCase, pendingFetch |-> pendingFetch,
     displayed |-> displayed, cmds |-> EmptyBag]
NoLoadMore == [loadingCases |-> loadingCases, cmds |-> EmptyBag]

\* An event on the list pane: the cursor and offset the list is left with
\* (l), what checkHighlightChange did (h) and what maybeLoadMoreCases did (more).
ListEvent(l, h, more) ==
    /\ Ready
    /\ dialog = "none"
    /\ ~modalVisible
    /\ cursor' = l.cursor
    /\ offset' = l.offset
    /\ highlightedCase' = h.highlightedCase
    /\ pendingFetch' = h.pendingFetch
    /\ displayed' = h.displayed
    /\ loadingCases' = more.loadingCases
    /\ inflight' = inflight (+) h.cmds (+) more.cmds
    /\ BagCardinality(inflight') <= MaxInflight
    /\ UNCHANGED <<cases, totalCases, loadingDetail, detailCache, sortField,
                   sortReverse, activeFilter, dialog, exportVars, noticeVars, tuiExportVars>>
    /\ Observe

\* Update, tea.KeyMsg with the list pane focused: caseList.Update, then
\* checkHighlightChange, then maybeLoadMoreCases.
KeyPress(k) ==
    LET l == ListKey(k, cases, cursor, offset)
    IN ListEvent(l, CheckHighlightChange(cases, l.cursor),
                 MaybeLoadMoreCases(cases, l.offset))

\* handleMouse, the wheel over the list.
WheelUp ==
    LET l == ScrollUp(1, cursor, offset)
    IN ListEvent(l, CheckHighlightChange(cases, l.cursor),
                 MaybeLoadMoreCases(cases, l.offset))
WheelDown ==
    LET l == ScrollDown(1, cases, cursor, offset)
    IN ListEvent(l, CheckHighlightChange(cases, l.cursor),
                 MaybeLoadMoreCases(cases, l.offset))

\* handleMouse, a click on the row shown at line `row` of the list.
RowClick(row) ==
    /\ offset + row >= 0
    /\ offset + row < Len(cases)
    /\ LET l == SetCursor(offset + row, cases, cursor, offset)
       IN ListEvent(l, CheckHighlightChange(cases, l.cursor), NoLoadMore)

\* CaseList.ScrollToRelativeLine: the offsets the scrollbar's track gives.
ThumbSize(cs) == Max(1, (VisibleRows * VisibleRows) \div Len(cs))
TrackHeight(cs) == Max(1, VisibleRows - ThumbSize(cs))
ScrollToRelativeLine(rel, cs, off) ==
    IF Len(cs) <= VisibleRows THEN off
    ELSE Min((rel * (Len(cs) - VisibleRows)) \div TrackHeight(cs),
             Len(cs) - VisibleRows)

\* handleMouse, a press or a drag on the list's scrollbar.
ScrollbarDrag(rel) ==
    LET o == ScrollToRelativeLine(rel, cases, offset)
    IN ListEvent([cursor |-> cursor, offset |-> o], NoHighlightChange,
                 MaybeLoadMoreCases(cases, o))

\* A change of the sort that asks the service for the list again.
ResortReloading(field, rev) ==
    /\ Ready
    /\ dialog = "none"
    /\ sortField' = field
    /\ sortReverse' = rev
    /\ cases' \in SortCases(cases, field, rev)
    /\ cursor' = 0
    /\ offset' = 0
    /\ inflight' = inflight (+) One(PageCmd(0, FALSE))
    /\ BagCardinality(inflight') <= MaxInflight
    /\ UNCHANGED <<totalCases, loadingCases, loadingDetail, highlightedCase,
                   pendingFetch, detailCache, displayed, activeFilter, dialog,
                   exportVars, noticeVars, tuiExportVars>>
    /\ Observe

\* A change of the sort: sortCases, whose SetCases puts the cursor and the
\* offset at 0.
Resort(field, rev) ==
    /\ Ready
    /\ dialog = "none"
    /\ sortField' = field
    /\ sortReverse' = rev
    /\ cases' \in SortCases(cases, field, rev)
    /\ cursor' = 0
    /\ offset' = 0
    /\ UNCHANGED <<totalCases, loadingCases, loadingDetail, highlightedCase,
                   pendingFetch, detailCache, displayed, activeFilter, dialog,
                   inflight, exportVars, noticeVars, tuiExportVars>>
    /\ Observe

\* Update, the sort key: cycleSortField.
CycleSortField == Resort((sortField + 1) % 4, sortReverse)
\* Update, "S": toggleSortOrder.
ToggleSortOrder == Resort(sortField, ~sortReverse)
\* handleMouse, a click on a column header.
HeaderColumns == {"case", "modified", "sev"}
HeaderClick(col) ==
    CASE col = "case" ->
            IF sortField = SortByCaseNumber THEN Resort(sortField, ~sortReverse)
            ELSE Resort(SortByCaseNumber, sortReverse)
      [] col = "modified" ->
            IF sortField = SortByLastModified THEN Resort(SortByCreated, sortReverse)
            ELSE IF sortField = SortByCreated THEN Resort(sortField, ~sortReverse)
            ELSE Resort(SortByLastModified, sortReverse)
      [] col = "sev" ->
            IF sortField = SortBySeverity THEN Resort(sortField, ~sortReverse)
            ELSE Resort(SortBySeverity, sortReverse)

\* Update, the refresh key.
Refresh ==
    /\ Ready
    /\ dialog = "none"
    /\ loadingCases' = TRUE
    /\ detailCache' = {}
    /\ inflight' = Superseded(inflight) (+) One(PageCmd(0, FALSE))
    /\ BagCardinality(inflight') <= MaxInflight
    /\ UNCHANGED <<cases, cursor, offset, totalCases, loadingDetail,
                   highlightedCase, pendingFetch, displayed, sortField,
                   sortReverse, activeFilter, dialog, exportVars, noticeVars, tuiExportVars>>
    /\ Observe

\* What clearing the filter does, from the key "F" and from FilterClearMsg.
ClearFilter(arrived) ==
    /\ activeFilter' = "nil"
    /\ loadingCases' = TRUE
    /\ detailCache' = {}
    /\ totalCases' = 0
    /\ inflight' = Superseded(inflight (-) arrived) (+) One(PageCmd(0, FALSE))
    /\ BagCardinality(inflight') <= MaxInflight
    /\ UNCHANGED <<cases, cursor, offset, loadingDetail, highlightedCase,
                   pendingFetch, displayed, sortField, sortReverse, dialog,
                   exportVars, noticeVars, tuiExportVars>>
    /\ Observe

\* Update, "F" with a filter active.
ClearFilterKey ==
    /\ Ready
    /\ dialog = "none"
    /\ activeFilter # "nil"
    /\ ClearFilter(EmptyBag)

\* The keys that open a dialog: "/" the quick search, "f" the filter dialog,
\* ctrl+f the text search, "e" and "E" the file picker.
Dialogs == {"quickSearch", "filter", "textSearch", "filePicker"}
OpenDialog(d) ==
    /\ Ready
    /\ dialog = "none"
    /\ d = "filePicker" => (displayed # NoCase \/ Len(cases) > 0)
    /\ dialog' = d
    /\ UNCHANGED <<cases, cursor, offset, totalCases, loadingCases,
                   loadingDetail, highlightedCase, pendingFetch, detailCache,
                   displayed, sortField, sortReverse, activeFilter, inflight,
                   exportVars, noticeVars, tuiExportVars>>
    /\ Observe

\* Esc in a dialog: it hides.
CloseDialog ==
    /\ Ready
    /\ dialog # "none"
    /\ dialog' = "none"
    /\ UNCHANGED <<cases, cursor, offset, totalCases, loadingCases,
                   loadingDetail, highlightedCase, pendingFetch, detailCache,
                   displayed, sortField, sortReverse, activeFilter, inflight,
                   exportVars, noticeVars, tuiExportVars>>
    /\ Observe

\* A dialog's key that hides it (or not) and returns a message.
DialogEmit(d, stays, msg) ==
    /\ Ready
    /\ dialog = d
    /\ dialog' = IF stays THEN d ELSE "none"
    /\ inflight' = inflight (+) One(msg)
    /\ BagCardinality(inflight') <= MaxInflight
    /\ UNCHANGED <<cases, cursor, offset, totalCases, loadingCases,
                   loadingDetail, highlightedCase, pendingFetch, detailCache,
                   displayed, sortField, sortReverse, activeFilter, exportVars, noticeVars, tuiExportVars>>
    /\ Observe

\* QuickSearch.Update, enter with a case number typed.
QuickSearchEnter(c) ==
    DialogEmit("quickSearch", FALSE, [type |-> "QuickSearchSubmit", caseNumber |-> c])
\* FilterDialog.Update, enter on Apply.
FilterDialogApply ==
    DialogEmit("filter", FALSE, [type |-> "FilterApply", filter |-> "sev"])
\* FilterDialog.Update, enter on Clear: the dialog stays.
FilterDialogClear ==
    DialogEmit("filter", TRUE, [type |-> "FilterClear"])

\* The command loadCasesPage returned runs: it reads m.activeFilter now.
RunLoadCasesPage(m) ==
    /\ m.type = "loadCasesPage"
    /\ \E err \in BOOLEAN :
         LET r == ListCases(activeFilter, m.start, PageSize)
             msg == IF err THEN CasesLoadedMsg(<<>>, 0, FALSE, TRUE)
                    ELSE CasesLoadedMsg(r.items, r.totalCount, m.append, FALSE)
         IN inflight' = (inflight (-) One(m)) (+) One([msg EXCEPT !.age = m.age])
    /\ UNCHANGED <<cases, cursor, offset, totalCases, loadingCases,
                   loadingDetail, highlightedCase, pendingFetch, detailCache,
                   displayed, sortField, sortReverse, activeFilter, dialog,
                   exportVars, noticeVars, tuiExportVars>>
    /\ Observe

\* Update with a dialog visible: the dialog's Update takes the message and,
\* unless it is a key, drops it.
DialogSwallow(m) ==
    /\ IsMessage(m)
    /\ Due(m)
    /\ dialog # "none"
    /\ inflight' = inflight (-) One(m)
    /\ UNCHANGED <<cases, cursor, offset, totalCases, loadingCases,
                   loadingDetail, highlightedCase, pendingFetch, detailCache,
                   displayed, sortField, sortReverse, activeFilter, dialog,
                   exportVars, noticeVars, tuiExportVars>>
    /\ Observe

\* the most bulk exports started in one session
MaxRuns == 2
ExportKinds == {"single", "bulk"}
ExportCmd(kind, ch) == [type |-> "exportRun", kind |-> kind, ch |-> ch]
ExportCompleteMsg(kind, ch, err) ==
    [type |-> "exportComplete", kind |-> kind, ch |-> ch, err |-> err]

\* Update, tea.KeyMsg: the Export key (the displayed case) and "E" (all the
\* cases loaded) set m.pendingExport and show the file picker.  With the
\* progress modal visible the modal takes the key.
ExportKey(kind) ==
    /\ Ready
    /\ dialog = "none"
    /\ ~modalVisible
    /\ kind = "single" => displayed # NoCase
    /\ kind = "bulk" => Len(cases) > 0
    /\ pendingExport' = kind
    /\ dialog' = "filePicker"
    /\ UNCHANGED <<cases, cursor, offset, totalCases, loadingCases,
                   loadingDetail, highlightedCase, pendingFetch, detailCache,
                   displayed, sortField, sortReverse, activeFilter, inflight,
                   exporting, exportProgressCh, modalVisible, runsStarted,
                   exportVars, noticeVars>>
    /\ Observe

\* Update with the file picker visible, a path chosen: the picker hides and
\* Update starts the pending export.  startSingleExport and startBulkExport
\* set m.exporting and show the progress modal; startBulkExport makes a new
\* progress channel and stores it in m.exportProgressCh.  The reader
\* waitExportProgress is the Consume of the export.
FilePickerSelect ==
    /\ Ready
    /\ dialog = "filePicker"
    /\ dialog' = "none"
    /\ pendingExport' = ""
    /\ IF pendingExport = "single"
       THEN /\ exporting' = TRUE
            /\ modalVisible' = TRUE
            /\ inflight' = inflight (+) One(ExportCmd("single", 0))
            /\ UNCHANGED <<exportProgressCh, runsStarted>>
       ELSE IF pendingExport = "bulk"
       THEN /\ runsStarted < MaxRuns
            /\ exporting' = TRUE
            /\ modalVisible' = TRUE
            /\ runsStarted' = runsStarted + 1
            /\ exportProgressCh' = runsStarted + 1
            /\ inflight' = inflight (+) One(ExportCmd("bulk", runsStarted + 1))
       ELSE UNCHANGED <<exporting, modalVisible, exportProgressCh, runsStarted,
                        inflight>>
    /\ BagCardinality(inflight') <= MaxInflight
    /\ UNCHANGED <<cases, cursor, offset, totalCases, loadingCases,
                   loadingDetail, highlightedCase, pendingFetch, detailCache,
                   displayed, sortField, sortReverse, activeFilter,
                   exportVars, noticeVars>>
    /\ Observe

\* Esc in the file picker: its onCancel clears m.pendingExport.
FilePickerCancel ==
    /\ Ready
    /\ dialog = "filePicker"
    /\ dialog' = "none"
    /\ pendingExport' = ""
    /\ UNCHANGED <<cases, cursor, offset, totalCases, loadingCases,
                   loadingDetail, highlightedCase, pendingFetch, detailCache,
                   displayed, sortField, sortReverse, activeFilter, inflight,
                   exporting, exportProgressCh, modalVisible, runsStarted,
                   exportVars, noticeVars>>
    /\ Observe

\* Modal.Update, esc in the progress modal: the modal hides.
ModalEsc ==
    /\ Ready
    /\ dialog = "none"
    /\ modalVisible
    /\ modalVisible' = FALSE
    /\ UNCHANGED <<cases, cursor, offset, totalCases, loadingCases,
                   loadingDetail, highlightedCase, pendingFetch, detailCache,
                   displayed, sortField, sortReverse, activeFilter, dialog,
                   inflight, exporting, exportProgressCh, pendingExport,
                   runsStarted, exportVars, noticeVars>>
    /\ Observe

\* The export command runs to its end and returns exportCompleteMsg.
RunExport(m) ==
    /\ m.type = "exportRun"
    /\ \E err \in BOOLEAN :
         inflight' = (inflight (-) One(m)) (+) One(ExportCompleteMsg(m.kind, m.ch, err))
    /\ UNCHANGED <<cases, cursor, offset, totalCases, loadingCases,
                   loadingDetail, highlightedCase, pendingFetch, detailCache,
                   displayed, sortField, sortReverse, activeFilter, dialog,
                   exportVars, noticeVars, tuiExportVars>>
    /\ Observe

\* Update, exportCompleteMsg.
HandleExportComplete(m) ==
    /\ m.type = "exportComplete"
    /\ Due(m)
    /\ dialog = "none"
    /\ exporting' = FALSE
    /\ exportProgressCh' = 0
    /\ modalVisible' = FALSE
    /\ inflight' = inflight (-) One(m)
    /\ UNCHANGED <<cases, cursor, offset, totalCases, loadingCases,
                   loadingDetail, highlightedCase, pendingFetch, detailCache,
                   displayed, sortField, sortReverse, activeFilter, dialog,
                   pendingExport, runsStarted, exportVars, noticeVars>>
    /\ Observe

\* Update, casesLoadedMsg.
HandleCasesLoaded(m) ==
    /\ m.type = "casesLoaded"
    /\ Due(m)
    /\ dialog = "none"
    /\ loadingCases' = FALSE
    /\ IF m.err
       THEN /\ inflight' = inflight (-) One(m)
            /\ UNCHANGED <<cases, cursor, offset, totalCases, highlightedCase,
                           pendingFetch, displayed>>
       ELSE LET selectedCase == SelectedCase(cases, cursor)
                savedOffset == offset
                merged == IF m.append THEN cases \o m.cases ELSE m.cases
            IN  \E sorted \in SortCases(merged, sortField, sortReverse) :
                  LET l == IF ~m.append THEN [cursor |-> 0, offset |-> 0]
                           ELSE IF selectedCase # NoCase
                           THEN SetCursor(IndexOf(selectedCase, sorted), sorted,
                                          0, SetOffset(savedOffset, sorted))
                           ELSE [cursor |-> 0,
                                 offset |-> SetOffset(savedOffset, sorted)]
                      h == CheckHighlightChange(sorted, l.cursor)
                  IN  /\ cases' = sorted
                      /\ totalCases' = IF m.totalCount > 0 THEN m.totalCount
                                       ELSE IF ~m.append THEN Len(merged)
                                       ELSE totalCases
                      /\ cursor' = l.cursor
                      /\ offset' = l.offset
                      /\ highlightedCase' = h.highlightedCase
                      /\ pendingFetch' = h.pendingFetch
                      /\ displayed' = h.displayed
                      /\ inflight' =
                             (IF m.age = "fresh" /\ ~m.append
                              THEN Overtaken(inflight (-) One(m))
                              ELSE inflight (-) One(m)) (+) h.cmds
    /\ UNCHANGED <<loadingDetail, detailCache, sortField, sortReverse,
                   activeFilter, dialog, exportVars, noticeVars, tuiExportVars>>
    /\ Observe

\* Update, debounceTimeoutMsg.  The command loadCaseDetail returns reads
\* nothing of the model: its message is settled when it is issued, one of
\* `results`.
DebounceTimeout(m, results) ==
    /\ m.type = "debounceTimeout"
    /\ Due(m)
    /\ dialog = "none"
    /\ IF m.caseNumber = pendingFetch /\ m.caseNumber # NoCase
       THEN /\ pendingFetch' = NoCase
            /\ loadingDetail' = TRUE
            /\ \E r \in results :
                 inflight' = (inflight (-) One(m)) (+) One(r)
       ELSE /\ inflight' = inflight (-) One(m)
            /\ UNCHANGED <<pendingFetch, loadingDetail>>
    /\ UNCHANGED <<cases, cursor, offset, totalCases, loadingCases,
                   highlightedCase, detailCache, displayed, sortField,
                   sortReverse, activeFilter, dialog, exportVars, noticeVars, tuiExportVars>>
    /\ Observe

\* The service answers a detail fetch as a whole: all three calls succeed,
\* or GetCase fails.
HandleDebounceTimeout(m) == DebounceTimeout(m, WholeResults(m.caseNumber))
\* The service may also fail the comments or the attachments call alone.
HandleDebounceTimeoutPartial(m) ==
    DebounceTimeout(m, WholeResults(m.caseNumber) \cup PartialResults(m.caseNumber))

\* Update, caseDetailLoadedMsg.
HandleCaseDetailLoaded(m) ==
    /\ m.type = "caseDetailLoaded"
    /\ Due(m)
    /\ dialog = "none"
    /\ loadingDetail' = FALSE
    /\ IF m.err
       THEN UNCHANGED <<detailCache, displayed>>
       ELSE /\ detailCache' = detailCache \cup {m.caseNumber}
            /\ displayed' = IF m.caseNumber = highlightedCase
                            THEN m.caseNumber ELSE displayed
    /\ flagged' = IF ~m.err /\ "comments" \in m.missing THEN {"comments"} ELSE {}
    /\ inflight' = inflight (-) One(m)
    /\ UNCHANGED <<cases, cursor, offset, totalCases, loadingCases,
                   highlightedCase, pendingFetch, sortField, sortReverse,
                   activeFilter, dialog, exportVars, tuiExportVars>>
    /\ Observe

\* Update, components.QuickSearchSubmitMsg: searchCaseByNumber, whose
\* GetCase finds the case or fails.
HandleQuickSearchSubmit(m) ==
    /\ m.type = "QuickSearchSubmit"
    /\ Due(m)
    /\ dialog = "none"
    /\ \E err \in BOOLEAN :
         inflight' = (inflight (-) One(m))
                        (+) One([type |-> "quickSearchResult",
                                 caseNumber |-> m.caseNumber, err |-> err])
    /\ UNCHANGED <<cases, cursor, offset, totalCases, loadingCases,
                   loadingDetail, highlightedCase, pendingFetch, detailCache,
                   displayed, sortField, sortReverse, activeFilter, dialog,
                   exportVars, noticeVars, tuiExportVars>>
    /\ Observe

\* Update, quickSearchResultMsg: addOrSelectCase.
HandleQuickSearchResult(m) ==
    /\ m.type = "quickSearchResult"
    /\ Due(m)
    /\ dialog = "none"
    /\ inflight' = inflight (-) One(m)
    /\ IF m.err
       THEN UNCHANGED <<cases, cursor, offset, highlightedCase, loadingDetail>>
       ELSE IF IndexOf(m.caseNumber, cases) >= 0
       THEN LET l == SetCursor(IndexOf(m.caseNumber, cases), cases, cursor, offset)
            IN  /\ cursor' = l.cursor
                /\ offset' = l.offset
                /\ highlightedCase' = m.caseNumber
                /\ loadingDetail' = TRUE
                /\ UNCHANGED cases
       ELSE \E sorted \in SortCases(<<m.caseNumber>> \o cases, sortField,
                                    sortReverse) :
              LET l == SetCursor(IndexOf(m.caseNumber, sorted), sorted, 0, 0)
              IN  /\ cases' = sorted
                  /\ cursor' = l.cursor
                  /\ offset' = l.offset
                  /\ highlightedCase' = m.caseNumber
                  /\ UNCHANGED loadingDetail
    /\ UNCHANGED <<totalCases, loadingCases, pendingFetch, detailCache,
                   displayed, sortField, sortReverse, activeFilter, dialog,
                   exportVars, noticeVars, tuiExportVars>>
    /\ Observe

\* Update, components.FilterApplyMsg.  loadCasesWithFilter is given its
\* filter: its message is settled when it is issued.
HandleFilterApply(m) ==
    /\ m.type = "FilterApply"
    /\ Due(m)
    /\ dialog = "none"
    /\ activeFilter' = m.filter
    /\ loadingCases' = TRUE
    /\ detailCache' = {}
    /\ totalCases' = 0
    /\ \E err \in BOOLEAN :
         LET r == ListCases(m.filter, 0, PageSize)
             msg == IF err THEN CasesLoadedMsg(<<>>, 0, FALSE, TRUE)
                    ELSE CasesLoadedMsg(r.items, r.totalCount, FALSE, FALSE)
         IN inflight' = Superseded(inflight (-) One(m)) (+) One(msg)
    /\ UNCHANGED <<cases, cursor, offset, loadingDetail, highlightedCase,
                   pendingFetch, displayed, sortField, sortReverse, dialog,
                   exportVars, noticeVars, tuiExportVars>>
    /\ Observe

\* Update, components.FilterClearMsg.
HandleFilterClear(m) ==
    /\ m.type = "FilterClear"
    /\ Due(m)
    /\ dialog = "none"
    /\ ClearFilter(One(m))

\* debounceDelay passes by one tick: no timer that has run out is waiting.
Tick ==
    /\ timed
    /\ ~TimerDue
    /\ LET Dec(m) == IF m.type = "debounceTimeout"
                     THEN [m EXCEPT !.rem = m.rem - 1] ELSE m
       IN inflight' = [d \in {Dec(m) : m \in DOMAIN inflight} |->
                         inflight[CHOOSE m \in DOMAIN inflight : Dec(m) = d]]
    /\ sinceChange' = Min(sinceChange + 1, DebounceTicks)
    /\ UNCHANGED <<cases, cursor, offset, totalCases, loadingCases,
                   loadingDetail, highlightedCase, pendingFetch, detailCache,
                   displayed, sortField, sortReverse, activeFilter, dialog,
                   timed, burstFetches, exportVars, noticeVars, tuiExportVars>>

\* The user's moves on the list.
Navigate ==
    \/ \E k \in ListKeys : KeyPress(k)
    \/ WheelUp
    \/ WheelDown
    \/ \E row \in 0..(VisibleRows - 1) : RowClick(row)
    \/ \E rel \in 0..VisibleRows : ScrollbarDrag(rel)

\* The changes of the sort.
Sorting ==
    \/ CycleSortField
    \/ ToggleSortOrder
    \/ \E col \in HeaderColumns : HeaderClick(col)

\* The list's fetches, the timers and the detail results.
Fetching ==
    \/ \E m \in BagToSet(inflight) : RunLoadCasesPage(m)
    \/ \E m \in BagToSet(inflight) : HandleCasesLoaded(m)
    \/ \E m \in BagToSet(inflight) : HandleDebounceTimeout(m)
    \/ \E m \in BagToSet(inflight) : HandleCaseDetailLoaded(m)

\* The same, the service failing parts of a detail fetch.
FetchingPartial ==
    \/ \E m \in BagToSet(inflight) : RunLoadCasesPage(m)
    \/ \E m \in BagToSet(inflight) : HandleCasesLoaded(m)
    \/ \E m \in BagToSet(inflight) : HandleDebounceTimeoutPartial(m)
    \/ \E m \in BagToSet(inflight) : HandleCaseDetailLoaded(m)

\* The export keys, the file picker, the progress modal and the export
\* command.
Exporting ==
    \/ \E kind \in ExportKinds : ExportKey(kind)
    \/ FilePickerSelect
    \/ FilePickerCancel
    \/ ModalEsc
    \/ \E m \in BagToSet(inflight) : RunExport(m)
    \/ \E m \in BagToSet(inflight) : HandleExportComplete(m)
    \/ \E m \in BagToSet(inflight) : DialogSwallow(m)

\* The text search: a dialog that opens, closes and drops messages.
TextSearching ==
    \/ OpenDialog("textSearch")
    \/ CloseDialog
    \/ \E m \in BagToSet(inflight) : DialogSwallow(m)

\* The filter dialog and the key that clears the filter.
Filtering ==
    \/ OpenDialog("filter")
    \/ ClearFilterKey
    \/ FilterDialogApply
    \/ FilterDialogClear
    \/ \E m \in BagToSet(inflight) : HandleFilterApply(m)
    \/ \E m \in BagToSet(inflight) : HandleFilterClear(m)

\* The quick search by case number.
QuickSearching ==
    \/ OpenDialog("quickSearch")
    \/ \E c \in 1..NServer : QuickSearchEnter(c)
    \/ \E m \in BagToSet(inflight) : HandleQuickSearchSubmit(m)
    \/ \E m \in BagToSet(inflight) : HandleQuickSearchResult(m)

\* Paging with nothing that replaces the list.
NextPaging == Navigate \/ Sorting \/ Fetching \/ TextSearching
\* Paging and the refresh key.
NextRefresh == Navigate \/ Fetching \/ Refresh
\* Paging against the clock.
NextDebounce == Navigate \/ Fetching \/ Tick
\* Paging and the quick search by case number.
NextQuickSearch == Navigate \/ Fetching \/ QuickSearching
\* Paging, the quick search and the changes of the sort.
NextSortSearch == Navigate \/ Sorting \/ Fetching \/ QuickSearching

\* Paging with a service that fails parts of a detail fetch.
NextDetail == Navigate \/ FetchingPartial

\* Paging and the exports started from the interface.
NextTuiExport == Navigate \/ Fetching \/ Exporting

\* The program's own steps: a command that runs, a message that Update is
\* given, by the main switch or by the dialog that is open.
Deliver ==
    \/ Fetching
    \/ \E m \in BagToSet(inflight) : HandleQuickSearchSubmit(m)
    \/ \E m \in BagToSet(inflight) : HandleQuickSearchResult(m)
    \/ \E m \in BagToSet(inflight) : DialogSwallow(m)

\* Paging and the quick search, the dialog closed at will.
NextLive == Navigate \/ QuickSearching \/ CloseDialog \/ Deliver

(***************************************************************************)
(* Specifications                                                          *)
(***************************************************************************)
\* ExportCases, the interface idle.
InitExportRun ==
    /\ InitExport
    /\ InitTui
    /\ InitClock(FALSE)
SpecExport == InitExportRun /\ [][NextExport]_vars
\* ExportCases with a caller that may cancel ctx and always reads progress.
SpecCancel == InitExportRun /\ [][NextCancel]_vars
\* ExportCases of an Exporter made with Options.Concurrency below 1.  The Go
\* scheduler runs every goroutine that can run, and the caller's reader
\* drains the progress channel.
InitFloor ==
    /\ InitExport
    /\ concurrency \in {NewExporter(c) : c \in (0 - MaxConcurrency)..0}
    /\ InitTui
    /\ InitClock(FALSE)
SpecFloor ==
    InitFloor /\ [][NextReading]_vars /\ WF_vars(EngineStep) /\ WF_vars(Consume)
\* ExportCases with any limit, every call returning and the caller reading
\* progress to the end.
SpecReading ==
    InitExportRun /\ [][NextReading]_vars /\ WF_vars(EngineStep) /\ WF_vars(Consume)

\* ExportCases not yet called.
InitRunIdle ==
    /\ caseNumbers = <<>>
    /\ combined = FALSE
    /\ concurrency = 1
    /\ mainPc = "mkdirOut"
    /\ taskPc = <<>>
    /\ sem = 0
    /\ errCh = <<>>
    /\ exports = <<>>
    /\ manifestCases = <<>>
    /\ addCaseLocal = <<>>
    /\ files = {}
    /\ progressCh = <<>>
    /\ progressNil = TRUE
    /\ consumer = "reading"
    /\ includeAttachments = FALSE
    /\ attLeft = <<>>
    /\ combinedDoc = <<>>
    /\ manifestSaved = 0
    /\ retErr = "none"
    /\ cancelled = FALSE
    /\ cancelAt = <<>>
    /\ lastProgress = 0 - 1
    /\ closes = 0
    /\ attFailed = <<>>

\* A run over no cases, where the export's variables rest.
InitExportIdle ==
    /\ InitRunIdle
    /\ InitCalled

\* The interface with no refresh, filter change or quick search.
InitUntimed ==
    /\ InitExportIdle
    /\ InitTui
    /\ InitClock(FALSE)
SpecPaging == InitUntimed /\ [][NextPaging]_vars
\* The interface with the refresh key.
SpecRefresh == InitUntimed /\ [][NextRefresh]_vars
\* The interface with the clock of the debounce timers.
InitTimed ==
    /\ InitExportIdle
    /\ InitTui
    /\ InitClock(TRUE)
SpecDebounce == InitTimed /\ [][NextDebounce]_vars
SpecQuickSearch == InitUntimed /\ [][NextQuickSearch]_vars
SpecSortSearch == InitUntimed /\ [][NextSortSearch]_vars
SpecDetail == InitUntimed /\ [][NextDetail]_vars
SpecTuiExport == InitUntimed /\ [][NextTuiExport]_vars
\* ExportWithFilter over a result set of any size up to MaxMatching.
InitFilter ==
    /\ caseNumbers = <<>>
    /\ combined \in BOOLEAN
    /\ concurrency \in {NewExporter(c) : c \in 0..MaxConcurrency}
    /\ mainPc = "mkdirOut"
    /\ taskPc = <<>>
    /\ sem = 0
    /\ errCh = <<>>
    /\ exports = <<>>
    /\ manifestCases = <<>>
    /\ addCaseLocal = <<>>
    /\ files = {}
    /\ progressCh = <<>>
    /\ progressNil \in BOOLEAN
    /\ consumer = "reading"
    /\ includeAttachments \in BOOLEAN
    /\ attLeft = <<>>
    /\ combinedDoc = <<>>
    /\ manifestSaved = 0
    /\ retErr = "none"
    /\ cancelled = FALSE
    /\ cancelAt = <<>>
    /\ lastProgress = 0 - 1
    /\ closes = 0
    /\ attFailed = <<>>
    /\ listPc = "listing"
    /\ startIndex = 0
    /\ allCases = <<>>
    /\ requests = <<>>
    /\ matching \in 0..MaxMatching
    /\ InitTui
    /\ InitClock(FALSE)
SpecFilter == InitFilter /\ [][NextFilter]_vars
\* The runtime runs every command and hands every message to Update; the
\* user is free to do nothing.
SpecLive == InitUntimed /\ [][NextLive]_vars /\ WF_vars(Deliver)


(***************************************************************************)
(* Properties of the bulk export                                           *)
(***************************************************************************)
Range(q) == {q[k] : k \in 1..Len(q)}
HoldingTasks == {i \in Tasks : Holding(i)}
FailedTasks == {i \in Tasks : taskPc[i] = "failed"}
\* ExportCases has returned from a run whose output directory was created.
RunReturned == mainPc = "returned" /\ retErr # "mkdirOut"

\* C1: at most Concurrency tasks are between acquiring and releasing their
\* semaphore slot, in every reachable state.
C1_BoundedParallelism == Cardinality(HoldingTasks) <= concurrency

\* C1's case: every slot is taken while another task waits for one.
C1_Witness ==
    /\ mainPc = "wait"
    /\ Cardinality(HoldingTasks) = concurrency
    /\ \E i \in Tasks : taskPc[i] = "pending"

\* C2: when ExportCases returns, the manifest holds one entry per task that
\* did not fail and one error is recorded per failed task, so entries plus
\* failures is the number of input identifiers, in either output mode.
C2_ManifestCompleteness ==
    RunReturned =>
        /\ Len(errCh) = Cardinality(FailedTasks)
        /\ Len(manifestCases) = N - Cardinality(FailedTasks)

\* C7: the sections of the combined document are in input-list order.
InInputOrder(doc) ==
    \A a, b \in 1..Len(doc) :
        a < b => \E i, j \in Tasks :
                    /\ i < j
                    /\ caseNumbers[i] = doc[a]
                    /\ caseNumbers[j] = doc[b]
C7_CombinedInputOrder == InInputOrder(combinedDoc)

\* C8: once the progress consumer has stopped reading, the run is never stuck
\* before its return: ExportCases or one of its tasks can always take a step.
C8_NoProgressBlock ==
    (consumer = "stopped" /\ mainPc # "returned") => ENABLED EngineStep

\* C9: in a run where some task failed, every task that did not fail has, at
\* the return, its output and its manifest entry.
HasOutput(i) ==
    IF combined THEN caseNumbers[i] \in Range(combinedDoc)
    ELSE caseNumbers[i] \in files
C9_FailureIsolation ==
    (RunReturned /\ FailedTasks # {}) =>
        \A i \in Tasks :
            taskPc[i] = "done" =>
                HasOutput(i) /\ caseNumbers[i] \in Range(manifestCases)

\* C10: no two tasks are inside Manifest.AddCase (between its read of
\* manifest.Cases and its write of the appended slice) at the same time.
InAddCase == {i \in Tasks : taskPc[i] = "addCaseWrite"}
C10_AddCaseExclusive == Cardinality(InAddCase) <= 1

\* C11: a run whose output directory was created and that returns what its
\* tasks made of it (no error, or the tasks' errors) has saved the manifest
\* exactly once, and the manifest is never saved before every task is
\* terminal.
C11_ManifestSavedOnce ==
    /\ (mainPc = "returned" /\ retErr \in {"nil", "taskErrors"}) =>
            manifestSaved = 1
    /\ manifestSaved > 0 => \A i \in Tasks : taskPc[i] \in Terminal

\* The steps of a task after its fetch: formatting the document, writing the
\* case file, downloading an attachment.
LaterSteps == {"formatCase", "writeFile", "download"}

\* C12: once ctx is cancelled no task takes a step after its fetch: a task
\* that is about to format, write or download stays where it is.
C12_NoStepAfterCancel ==
    [][cancelled =>
          \A i \in Tasks :
              taskPc[i] \in LaterSteps => taskPc'[i] = taskPc[i]]_vars

\* The tasks that were done when ctx was cancelled.
DoneAtCancel == {i \in Tasks : cancelAt[i] = "done"}

\* C13: a run cancelled when K tasks were done and the others still pending
\* returns a manifest of exactly those K cases, and the case files are those
\* written before the cancellation.
C13_CancelKeepsDone ==
    (RunReturned /\ cancelled /\
     \A i \in Tasks : cancelAt[i] \in {"done", "pending"}) =>
        /\ Len(manifestCases) = Cardinality(DoneAtCancel)
        /\ Range(manifestCases) = {caseNumbers[i] : i \in DoneAtCancel}
        /\ ~combined => files = {caseNumbers[i] : i \in DoneAtCancel}

(***************************************************************************)
(* Properties of the interface                                             *)
(***************************************************************************)
\* C3: of a run of highlight changes, each less than the debounce delay after
\* the one before, at most one detail fetch comes, and it is for the case
\* highlighted last.
C3_DebounceCoalescing ==
    /\ Len(burstFetches) <= 1
    /\ Len(burstFetches) = 1 => burstFetches[1] = highlightedCase

\* A detail result for case c without error is taken from the messages in
\* flight by this step: it has arrived.
DetailArrives(c) ==
    CopiesIn(DetailLoadedMsg(c, FALSE), inflight')
        < CopiesIn(DetailLoadedMsg(c, FALSE), inflight)

\* C4: a detail result that arrives without error is cached under its case
\* number, and it changes the displayed case only when its case is the
\* highlighted one.
C4_DetailResultCached ==
    [][\A c \in 1..NServer :
          DetailArrives(c) =>
              /\ c \in detailCache'
              /\ displayed' = IF c = highlightedCase THEN c ELSE displayed]_vars

\* The page fetches of maybeLoadMoreCases that have not delivered: commands
\* running and results waiting.
IsPageFetch(m) ==
    \/ m.type = "loadCasesPage" /\ m.append
    \/ m.type = "casesLoaded" /\ m.append
OutstandingPageFetches ==
    BagCardinality([m \in {x \in DOMAIN inflight : IsPageFetch(x)} |-> inflight[m]])

\* C5: with no refresh, filter change or quick search, the rows loaded are the
\* first len(m.cases) rows of the service, each once, in the service's order
\* while the list is sorted as the service sorts, and a page is asked at the
\* offset len(m.cases).
C5_ContiguousPrefix ==
    /\ Len(cases) <= NServer
    /\ \A i \in 1..Len(cases) : \E j \in 1..Len(cases) : cases[j] = AllRows[i]
    /\ (sortField = SortByLastModified /\ sortReverse)
          => \A i \in 1..Len(cases) : cases[i] = AllRows[i]
    /\ \A m \in BagToSet(inflight) :
          (m.type = "loadCasesPage" /\ m.append) => m.start = Len(cases)

\* C5's case: a second page has been appended to the first.
C5_Witness ==
    /\ Len(cases) > PageSize
    /\ ~loadingCases
    /\ OutstandingPageFetches = 0

\* C6: while a page fetch of maybeLoadMoreCases is outstanding, no second one
\* is issued.
C6_SingleFlightPaging == OutstandingPageFetches <= 1

\* A debounce timer armed after the one that fires now is still running.
LaterTimerRuns ==
    \E t \in BagToSet(inflight') : t.type = "debounceTimeout" /\ t.rem > 0

\* C14: a debounce timer that fires issues a detail fetch only for the case
\* that is highlighted, and only when no timer was armed after it.
C14_OnlyLatestTimerFetches ==
    [][\A m \in IssuedFetches :
          m.caseNumber = highlightedCase /\ ~LaterTimerRuns]_vars

\* The detail fetches for case c that have not delivered their result.
DetailFetchesInFlight(c) ==
    CopiesIn(DetailLoadedMsg(c, FALSE), inflight)
        + CopiesIn(DetailLoadedMsg(c, TRUE), inflight)

\* C15: at most one detail fetch is in flight for each case.
C15_SingleFlightDetail ==
    \A c \in 1..NServer : DetailFetchesInFlight(c) <= 1

\* A debounce timer is armed by this step.
TimerArmed ==
    \E t \in BagToSet(inflight') :
        t.type = "debounceTimeout" /\ CopiesIn(t, inflight') > CopiesIn(t, inflight)

\* C16: a step that changes the highlighted case to one that is in the
\* detail cache displays that case, arms no debounce timer and issues no
\* detail fetch.
C16_CachedSelectionDisplays ==
    [][(HighlightChanged /\ highlightedCase' \in detailCache) =>
          /\ displayed' = highlightedCase'
          /\ ~TimerArmed
          /\ IssuedFetches = {}]_vars

\* A detail result for case c with an error is taken from the messages in
\* flight by this step: the fetch has failed.
DetailFails(c) ==
    CopiesIn(DetailLoadedMsg(c, TRUE), inflight')
        < CopiesIn(DetailLoadedMsg(c, TRUE), inflight)

\* C17: when a detail fetch for case c fails, the detail cache has no entry
\* for c afterwards and its other entries are as before; and a change of the
\* highlight to a case that is not cached arms a debounce timer for it.
C17_FailureNotCached ==
    [][/\ \A c \in 1..NServer :
             DetailFails(c) =>
                 /\ c \notin detailCache'
                 /\ detailCache' \ {c} = detailCache \ {c}
       /\ (HighlightChanged /\ highlightedCase' \notin detailCache) =>
             CopiesIn(DebounceCmd(highlightedCase'), inflight')
                 > CopiesIn(DebounceCmd(highlightedCase'), inflight)]_vars

\* A detail fetch for case c that fails is under way.
DetailFetchFailing(c) == CopiesIn(DetailLoadedMsg(c, TRUE), inflight) > 0

\* C18: a case that is highlighted is eventually the displayed one, unless
\* the highlight moves on or a detail fetch for the case fails.
C18_EventuallyDisplayed ==
    \A c \in 1..NServer :
        (highlightedCase = c) ~>
            (displayed = c \/ highlightedCase # c \/ DetailFetchFailing(c))

\* The list fetches of any origin that have not delivered: commands running
\* and results waiting.
IsListFetch(m) == m.type \in {"loadCasesPage", "casesLoaded"}
OutstandingListFetches ==
    BagCardinality([m \in {x \in DOMAIN inflight : IsListFetch(x)} |-> inflight[m]])

\* C19: at most one list fetch, of the initial load, of maybeLoadMoreCases,
\* of a refresh or of a filter change, is in flight at any time.
C19_SingleFlightList == OutstandingListFetches <= 1

\* The result of a list fetch issued before the last refresh or filter change
\* is applied by this step, after the fresh first page was.
LateResultApplied(m) ==
    /\ m.type = "casesLoaded"
    /\ m.age = "late"
    /\ ~m.err
    /\ CopiesIn(m, inflight') < CopiesIn(m, inflight)

\* C20: once the first page asked after a refresh or filter change has been
\* applied, the result of a list fetch issued before that event leaves the
\* list as it is.
C20_LateResultsDiscarded ==
    [][\A m \in BagToSet(inflight) : LateResultApplied(m) => cases' = cases]_vars

\* The result, without error, of a detail fetch for case c issued before the
\* detail cache was last cleared is taken from the messages in flight.
OldDetailArrives(c) ==
    LET m == [DetailLoadedMsg(c, FALSE) EXCEPT !.age = "old"]
    IN  CopiesIn(m, inflight') < CopiesIn(m, inflight)

\* C21: the detail cache loses entries only by being emptied, and the result
\* of a detail fetch issued before the cache was emptied adds nothing to it.
C21_CacheClearedWholesale ==
    [][/\ detailCache \subseteq detailCache' \/ detailCache' = {}
       /\ \A c \in 1..NServer :
             OldDetailArrives(c) => detailCache' = detailCache]_vars

\* C22: no case number is twice in the list m.cases.
C22_NoDuplicateCases ==
    \A i, j \in 1..Len(cases) : cases[i] = cases[j] => i = j

\* The results of failed list fetches among the messages b; one of them is
\* taken from the messages in flight by this step: Update has been given it.
FailedPages(b) ==
    BagCardinality([m \in {x \in DOMAIN b : x.type = "casesLoaded" /\ x.err}
                       |-> b[m]])
PageFailureArrives == FailedPages(inflight') < FailedPages(inflight)

\* C23: when the result of a failed list fetch arrives, the loaded cases and
\* the total count stay as they are and the list is no longer marked as
\* loading.
C23_PageFailureKeepsList ==
    [][PageFailureArrives =>
          /\ cases' = cases
          /\ totalCases' = totalCases
          /\ loadingCases' = FALSE]_vars

\* A page result is appended by this step to a list with a selected row.
PageAppended ==
    /\ dialog = "none"
    /\ SelectedCase(cases, cursor) # NoCase
    /\ \E m \in BagToSet(inflight) :
          /\ m.type = "casesLoaded"
          /\ m.append
          /\ ~m.err
          /\ CopiesIn(m, inflight') < CopiesIn(m, inflight)

\* C24: the step that appends a page to a list with a selected row leaves the
\* selected case and the highlighted case as they were, whatever the sort,
\* and arms no debounce timer.
C24_AppendKeepsSelection ==
    [][PageAppended =>
          /\ SelectedCase(cases', cursor') = SelectedCase(cases, cursor)
          /\ highlightedCase' = highlightedCase
          /\ ~TimerArmed]_vars

\* The sort field or direction is changed by this step.
SortChanged == sortField' # sortField \/ sortReverse' # sortReverse
\* How many times case c is in the list cs.
Occurrences(c, cs) == Cardinality({i \in 1..Len(cs) : cs[i] = c})

\* C25: a step that changes the sort field or direction issues no command,
\* and leaves the loaded cases (each as many times as before), the total
\* count and the detail cache as they were.
C25_SortIsLocal ==
    [][SortChanged =>
          /\ inflight' = inflight
          /\ \A c \in 1..NServer : Occurrences(c, cases') = Occurrences(c, cases)
          /\ Len(cases') = Len(cases)
          /\ totalCases' = totalCases
          /\ detailCache' = detailCache]_vars

\* C25's case: with the sort changed, the loaded cases stand in another order
\* than the service's, a detail is cached and nothing is in flight.
C25_Witness ==
    /\ ~(sortField = SortByLastModified /\ sortReverse)
    /\ Len(cases) = NServer
    /\ \E i \in 1..Len(cases) : cases[i] # AllRows[i]
    /\ detailCache # {}
    /\ inflight = EmptyBag

\* A step of an event that ends in maybeLoadMoreCases: a key on the list, the
\* wheel over it, a press or drag on its scrollbar.
CallsLoadMore ==
    \/ \E k \in ListKeys : KeyPress(k)
    \/ WheelUp
    \/ WheelDown
    \/ \E rel \in 0..VisibleRows : ScrollbarDrag(rel)
\* A page fetch of maybeLoadMoreCases at offset start is issued by this step.
LoadMoreIssuedAt(start) ==
    CopiesIn(PageCmd(start, TRUE), inflight') > CopiesIn(PageCmd(start, TRUE), inflight)
\* The design's condition for loading more, on the list as the event leaves it.
LoadMoreWanted ==
    /\ ~loadingCases
    /\ Len(cases) < totalCases
    /\ offset' + VisibleRows >= Len(cases) - 1

C27_PartialResultWithError ==
    RunReturned =>
        /\ (FailedTasks # {}) <=> (retErr = "taskErrors")
        /\ retErr = "taskErrors" => Len(errCh) = Cardinality(FailedTasks)
        /\ retErr \in {"nil", "taskErrors", "formatCombined", "writeCombined",
                       "saveManifest"}
        /\ retErr = "taskErrors" =>
              \A i \in Tasks :
                  taskPc[i] = "done" => caseNumbers[i] \in Range(manifestCases)

\* C28: a combined run in which a task failed and a task succeeded has
\* written the combined document with a section for every case that
\* succeeded.
C28_CombinedDespiteFailure ==
    (RunReturned /\ combined /\ retErr = "taskErrors") =>
        \A i \in Tasks :
            taskPc[i] = "done" => caseNumbers[i] \in Range(combinedDoc)

\* C29: the CompletedCases of a Progress placed on the channel is never less
\* than that of the Progress placed before it.
C29_ProgressMonotonic == [][lastProgress' >= lastProgress]_vars

\* C30: with Options.Concurrency below 1 the Exporter's limit is 1, and a run
\* that has started its tasks comes to return with every task terminal.
C30_FloorTerminates ==
    (mainPc = "wait") ~>
        (concurrency = 1 /\ mainPc = "returned" /\ \A i \in Tasks : taskPc[i] \in Terminal)

\* C30's case: a run over MaxTasks identifiers, its limit corrected to 1, has
\* returned with every task run.
C30_Witness ==
    /\ N = MaxTasks
    /\ concurrency = 1
    /\ RunReturned
    /\ \A i \in Tasks : taskPc[i] \in Terminal
    /\ \E i \in Tasks : taskPc[i] = "done"

\* The place of a step in the body of a task goroutine, in program order.
StepRank(pc) ==
    CASE pc = "pending" -> 0
      [] pc = "progressFetch" -> 1
      [] pc = "getCase" -> 2
      [] pc = "getComments" -> 3
      [] pc = "getAttachments" -> 4
      [] pc = "appendExport" -> 5
      [] pc = "mkdirCase" -> 6
      [] pc = "formatCase" -> 7
      [] pc = "writeFile" -> 8
      [] pc = "mkdirAtt" -> 9
      [] pc \in {"progressAtt", "download"} -> 10
      [] pc = "addCaseRead" -> 11
      [] pc = "addCaseWrite" -> 12
      [] pc = "progressDone" -> 13
      [] pc \in Terminal -> 14

\* The state of the design a task is in: Pending 0, Fetching 1, Formatting 2,
\* Writing 3 (to the end of the goroutine's body), Done or Failed 4.
PhaseRank(pc) ==
    IF StepRank(pc) = 0 THEN 0
    ELSE IF StepRank(pc) <= 5 THEN 1
    ELSE IF StepRank(pc) <= 7 THEN 2
    ELSE IF StepRank(pc) <= 13 THEN 3
    ELSE 4

RemoteCalls == {"getCase", "getComments", "getAttachments"}

C32_StartInInputOrder ==
    \A i, j \in Tasks :
        (i < j /\ taskPc[j] # "pending") => taskPc[i] # "pending"

\* C34: the error channel never holds more than its capacity N, so a task's
\* `errCh <- err` never blocks; and a run that has started its tasks comes
\* to return with every task terminal and every semaphore slot released.
C34_RunTerminates ==
    /\ [](Len(errCh) <= N)
    /\ (mainPc = "wait") ~>
          (mainPc = "returned" /\ sem = 0 /\ \A i \in Tasks : taskPc[i] \in Terminal)

\* C34's case: a run over MaxTasks identifiers with MaxConcurrency slots has
\* returned, every task failed and the error channel full.
C34_Witness ==
    /\ RunReturned
    /\ N = MaxTasks
    /\ concurrency = MaxConcurrency
    /\ Len(errCh) = N
    /\ sem = 0

C39_DownloadFailureTolerated ==
    (RunReturned /\ ~combined /\ includeAttachments) =>
        \A i \in Tasks :
            attFailed[i] =>
                /\ taskPc[i] = "done"
                /\ Cardinality({k \in 1..Len(manifestCases) :
                                   manifestCases[k] = caseNumbers[i]}) = 1
                /\ i \notin Range(errCh)

\* The batches a listing of t cases takes: one for none, else t / BatchSize
\* rounded up.
BatchesFor(t) == IF t = 0 THEN 1 ELSE (t + BatchSize - 1) \div BatchSize

\* C40: the listing asks for the offsets 0, BatchSize, 2 * BatchSize, ...; it
\* ends with the batch that is short or that reaches the reported total,
\* having collected every matching case once in the service's order, and
\* ExportCases is called with exactly those; after a listing error, and for
\* an empty result, ExportCases is not called and no task starts.
C40_ListingLoop ==
    /\ requests = [k \in 1..Len(requests) |-> (k - 1) * BatchSize]
    /\ Len(requests) <= BatchesFor(matching)
    /\ listPc \in {"collected", "called", "empty"} =>
          /\ allCases = MatchingRows(matching)
          /\ Len(requests) = BatchesFor(matching)
    /\ listPc = "called" => (matching > 0 /\ caseNumbers = MatchingRows(matching))
    /\ listPc = "empty" => matching = 0
    /\ listPc # "called" => (N = 0 /\ mainPc = "mkdirOut" /\ sem = 0)

\* C40's case: a result set of MaxMatching cases has been listed in more
\* than two batches and a task of the ExportCases that followed has started.
C40_Witness ==
    /\ matching = MaxMatching
    /\ Len(requests) > 2
    /\ listPc = "called"
    /\ \E i \in Tasks : taskPc[i] # "pending"

(***************************************************************************)
(* Further properties of the interface                                     *)
(***************************************************************************)
\* A detail result of case c with the pieces ms missing is handed to Update.
PartialArrives(c, ms) ==
    CopiesIn(PartialDetailMsg(c, ms), inflight')
        < CopiesIn(PartialDetailMsg(c, ms), inflight)

\* C33: when a detail result arrives whose case was fetched and whose
\* comments or attachments were not, the bundle is cached, it is displayed
\* if the case is still selected, and every missing piece is flagged.
C33_PartialBundleFlagged ==
    [][\A c \in 1..NServer : \A ms \in (SUBSET Pieces) \ {{}} :
          PartialArrives(c, ms) =>
              /\ c \in detailCache'
              /\ c = highlightedCase => displayed' = c
              /\ flagged' = ms]_vars

\* C35: loadingCases is true exactly when a list-page fetch is outstanding:
\* running, or its result not yet handed to Update.
C35_LoadingFlagExact == loadingCases <=> (OutstandingListFetches > 0)

\* The export commands of the interface that are running.
RunningExports == {m \in BagToSet(inflight) : m.type = "exportRun"}
NumRunningExports ==
    BagCardinality([m \in RunningExports |-> inflight[m]])

\* C37: at most one export started from the interface runs at a time, it
\* runs only while m.exporting is set, and m.exportProgressCh is the channel
\* of the bulk export that runs.
C37_SingleExport ==
    /\ NumRunningExports <= 1
    /\ \A m \in RunningExports :
          /\ exporting
          /\ m.kind = "bulk" => exportProgressCh = m.ch

\* C38: with a list that is not empty, m.highlightedCase is the case of the
\* row under the list cursor.
C38_HighlightFollowsCursor ==
    Len(cases) > 0 => highlightedCase = SelectedCase(cases, cursor)
====
